---- MODULE Spec2Model ----
(***************************************************************************)
(* Model of the SID synthesis nodes of UE-AUDIO-MCP: the fractional-cycle  *)
(* clock accumulator every node runs per sample, the parameter-to-register *)
(* translation of the chip node, and the reSID filter (Filter::clock,      *)
(* Filter::output) with its dithering noise source.                        *)
(*                                                                         *)
(* Numbers.  A C++ float is modelled exactly: a float value is an integer  *)
(* count of FUnit-ths (2^-23), rounded to a 24-bit mantissa by             *)
(* RoundToFloat after every operation.  C++ int arithmetic is modelled on  *)
(* the integers; x >> n is x \div 2^n (arithmetic shift, floor).           *)
(***************************************************************************)
EXTENDS Integers, Sequences, FiniteSets, TLC

VARIABLES
    SampleRate,        \* float SampleRate (host rate, Hz), fixed at construction
    CycleAccumulator,  \* float CycleAccumulator, in FUnit-ths of a cycle
    WholeCycles,       \* int32 WholeCycles of the last rendered sample
    totalCycles,       \* sum of the WholeCycles handed to the chip since construction/Reset
    nSamples,          \* samples rendered since construction/Reset
    chip,              \* one FSIDChipOperator: SID, CurrentChipModel, CycleAccumulator, bGateOn
    chipOp,            \* the last operation run on the chip node
    chipIn,            \* the inputs of the last Execute of the chip node
    chipBlocks,        \* blocks the chip node has rendered (bounded by MaxBlocks)
    env,               \* one FSIDEnvelopeOperator of the same graph: EnvGen, CycleAccumulator, bGateOn
    flt,               \* one Filter, as owned by a filter node
    flt2,              \* a second Filter, constructed separately, given the same calls
    fltPrev,           \* flt before the last call
    fltOp,             \* the last call made on the filters
    fltIn,             \* the arguments of the last clock call
    fltRouted,         \* some clock call since construction/Reset integrated a routed input
    fltOps,            \* calls made on the filters (bounded by MaxFilterOps)
    lp,                \* the while (delta_t) loop of Filter::clock, one pass at a time
    ext,               \* one SID16 driven through its extension API, with its Filter
    srv,               \* the command server: TCP thread, dispatcher, game thread, client
    mgr                \* one manager driven by commands: FAudioMCPBuilderManager or
                       \* FAudioMCPBlueprintManager

clockVars == <<SampleRate, CycleAccumulator, WholeCycles, totalCycles, nSamples>>
chipVars  == <<chip, chipOp, chipIn, chipBlocks, env>>
filterVars == <<flt, flt2, fltPrev, fltOp, fltIn, fltRouted, fltOps>>
sideVars == <<ext, srv, mgr>>
vars == <<clockVars, chipVars, filterVars, lp, sideVars>>

-----------------------------------------------------------------------------
(* Bounds of the model *)

\* samples rendered per run of the clock-accumulator specification
MaxSamples == 520

\* blocks rendered per run of the chip-node specification
MaxBlocks == 2

\* calls made on a filter in one behaviour
MaxFilterOps == 3

\* the largest cycle count passed to Filter::clock
MaxDelta == 40

-----------------------------------------------------------------------------
(* IEEE-754 single precision, as far as the nodes use it *)

\* one float unit in the last place of [1,2): values are counted in 2^-23
FUnit == 2^23

\* the 24-bit mantissa limit
FMantLimit == 2^24

RECURSIVE ShiftFor(_, _)
\* the number of low bits a value x >= 0 must drop to fit a 24-bit mantissa
ShiftFor(x, s) == IF x < FMantLimit * (2^s) THEN s ELSE ShiftFor(x, s + 1)

\* round-to-nearest-even of q + r/d, given the remainder r of a division by d
RoundHalfEven(q, r, d) ==
    IF 2 * r > d \/ (2 * r = d /\ q % 2 = 1) THEN q + 1 ELSE q

\* a non-negative real (in FUnit-ths) rounded to the nearest float
RoundToFloat(x) ==
    LET s == ShiftFor(x, 0)
    IN  RoundHalfEven(x \div (2^s), x % (2^s), 2^s) * (2^s)

RECURSIVE DivNorm(_, _, _, _, _)
\* binary long division of (q + r/d) * 2^up, carried on until the quotient
\* holds a full 24-bit mantissa: the result is (m + r/d) * 2^-k
DivNorm(q, r, d, up, k) ==
    IF q = 0 /\ r = 0 THEN [m |-> 0, r |-> 0, k |-> 0]
    ELSE IF up > 0 THEN DivNorm(2 * q + ((2 * r) \div d), (2 * r) % d, d, up - 1, k)
    ELSE IF q >= FUnit THEN [m |-> q, r |-> r, k |-> k]
    ELSE DivNorm(2 * q + ((2 * r) \div d), (2 * r) % d, d, 0, k + 1)

\* the float n * 2^up / d as a mantissa m and a binary exponent -k
FloatQuot(n, d, up) ==
    LET e == DivNorm(n \div d, n % d, d, up, 0)
    IN  [m |-> RoundHalfEven(e.m, e.r, d), k |-> e.k]

-----------------------------------------------------------------------------
(* The clock accumulator: SIDChipNode.cpp 393, 424-430 and the same lines  *)
(* of the oscillator, envelope, voice and filter nodes                     *)

SIDClockRate == 985248

\* const float CyclesPerSampleF = SIDClockRate / SampleRate;  (in FUnit-ths)
CyclesPerSampleF(rate) ==
    LET f == FloatQuot(SIDClockRate, rate, 0)
    IN  f.m * (2^(23 - f.k))

\* a faulty conversion: rounds to the nearest integer instead of truncating
TruncToInt_Nearest(x) == (x + FUnit \div 2) \div FUnit

\* static_cast<int32>(float): truncation toward zero
TruncToInt(x) == IF x >= 0 THEN x \div FUnit ELSE -((-x) \div FUnit)

\* One iteration of the sample loop on [acc, total, whole]:
\*   CycleAccumulator += CyclesPerSampleF;
\*   int32 WholeCycles = static_cast<int32>(CycleAccumulator);
\*   CycleAccumulator -= static_cast<float>(WholeCycles);
AccumulateSample(st, cps) ==
    LET sum   == RoundToFloat(st.acc + cps)
        whole == TruncToInt(sum)
    IN  [acc   |-> RoundToFloat(sum - whole * FUnit),
         whole |-> whole,
         total |-> st.total + whole]

RECURSIVE RenderLoop(_, _, _)
\* for (int32 i = 0; i < NumSamples; ++i) { ... }
RenderLoop(st, cps, n) ==
    IF n = 0 THEN st ELSE RenderLoop(AccumulateSample(st, cps), cps, n - 1)

-----------------------------------------------------------------------------
(* Bit operations of the register encodings *)

RECURSIVE BitOr(_, _)
\* a | b on non-negative integers
BitOr(a, b) ==
    IF a = 0 THEN b
    ELSE IF b = 0 THEN a
    ELSE (IF a % 2 = 1 \/ b % 2 = 1 THEN 1 ELSE 0) + 2 * BitOr(a \div 2, b \div 2)

\* FMath::Clamp(X, Min, Max) on integers
Clamp(x, lo, hi) == IF x < lo THEN lo ELSE IF x < hi THEN x ELSE hi

-----------------------------------------------------------------------------
(* Parameter encodings of FSIDChipOperator::Execute                        *)
(*                                                                         *)
(* A frequency input is a float counted in eighths of a Hz (Freq8); a      *)
(* float in the unit range (pulse width, cutoff, resonance, volume,        *)
(* resonance boost) is counted in quarters (Q4).  Both are exact floats.   *)

Voices == 0..2

\* float FreqHz = FMath::Clamp(*FreqInputs[v], 0.1f, 20000.0f); the result is
\* the float m * 2^-e.  0.1f is 13421773 * 2^-27 and lies strictly between
\* 0/8 and 1/8 Hz
ClampFreq(freq8) ==
    IF freq8 < 1 THEN [m |-> 13421773, e |-> 27]
    ELSE IF freq8 < 8 * 20000 THEN [m |-> freq8, e |-> 3]
    ELSE [m |-> 20000, e |-> 0]

\* reg24 SIDFreq = static_cast<reg24>((FreqHz * 16777216.0f) / SIDClockRate);
\* the product is exact (a power of two), the quotient is rounded to float
SIDFreqOf(f) ==
    LET q == FloatQuot(f.m, SIDClockRate * (2^(IF f.e > 24 THEN f.e - 24 ELSE 0)),
                       IF f.e > 24 THEN 0 ELSE 24 - f.e)
    IN  q.m \div (2^q.k)

\* FMath::Clamp(x, 0.0f, 1.0f) on a float counted in quarters
ClampUnit(q4) == Clamp(q4, 0, 4)

\* static_cast<reg>(x * scale) for x in [0,1] counted in quarters: the
\* product is an exact float, the cast truncates
ScaleUnit(q4, scale) == (ClampUnit(q4) * scale) \div 4

\* switch (Wave) { case ESIDWaveform::...: WaveBits = ...; }
WaveBitsOf(w) ==
    CASE w = "Triangle"    -> 16
      [] w = "Sawtooth"    -> 32
      [] w = "Pulse"       -> 64
      [] w = "Noise"       -> 128
      [] w = "SawTri"      -> 48
      [] w = "PulseSaw"    -> 96
      [] w = "PulseTri"    -> 80
      [] w = "PulseSawTri" -> 112

\* switch (FilterMode) { case ESIDFilterMode::...: ModeBits = ...; }
ModeBitsOf(m) ==
    CASE m = "LowPass"  -> 16
      [] m = "BandPass" -> 32
      [] m = "HighPass" -> 64
      [] m = "Notch"    -> 80
      [] m = "LowBand"  -> 48
      [] m = "BandHigh" -> 96
      [] m = "All"      -> 112

-----------------------------------------------------------------------------
(* SID16: the register file and the running state of the chip.  sid.h      *)
(* declares the class; write, reset, clock and set_chip_model are defined  *)
(* in sid_impl.h and are modelled from the specification (sections 3, 4.5) *)

Registers == 0..24

\* SID16 as constructed: registers silent, oscillators at rest, extensions off
SIDConstructed ==
    [reg               |-> [a \in Registers |-> 0],
     accumulator       |-> [v \in Voices |-> 0],
     model             |-> "MOS6581",
     filter_enabled    |-> TRUE,
     res_boost         |-> 0,
     res_boost_enabled |-> FALSE,
     filter_res_boost  |-> 0]

\* void SID16::write(reg8 offset, reg8 value): one byte-wide register
SIDWrite(sid, offset, value) ==
    [sid EXCEPT !.reg[offset] = value % 256]

\* the 16-bit frequency register of voice v, little-endian split
FreqRegister(sid, v) == sid.reg[7 * v] + 256 * sid.reg[7 * v + 1]

\* the 12-bit pulse-width register of voice v
PWRegister(sid, v) == sid.reg[7 * v + 2] + 256 * (sid.reg[7 * v + 3] % 16)

\* the 11-bit cutoff register
FCRegister(sid) == (sid.reg[21] % 8) + 8 * sid.reg[22]

\* void SID16::reset(): registers to silence, running state to rest; the
\* chip model and the extension settings are not registers and stay
SIDReset(sid) ==
    [sid EXCEPT !.reg = [a \in Registers |-> 0],
                !.accumulator = [v \in Voices |-> 0]]

\* void SID16::set_chip_model(chip_model model)
SIDSetChipModel(sid, model) == [sid EXCEPT !.model = model]

\* void SID16::enable_filter(bool enable)
SIDEnableFilter(sid, enable) == [sid EXCEPT !.filter_enabled = enable]

\* inline void setResBoost(int boost) { res_boost = boost; filter.set_resonance_boost(boost); }
SIDSetResBoost(sid, boost) ==
    [sid EXCEPT !.res_boost = boost, !.filter_res_boost = boost]

\* inline void enableResBoost(bool enable) { res_boost_enabled = enable;
\*   if (enable) filter.set_resonance_boost(res_boost); else filter.set_resonance_boost(0); }
SIDEnableResBoost(sid, enable) ==
    [sid EXCEPT !.res_boost_enabled = enable,
                !.filter_res_boost = IF enable THEN sid.res_boost ELSE 0]

\* void SID16::clock(cycle_count delta_t): each 24-bit phase accumulator
\* advances by its frequency register per cycle, modulo 2^24
SIDClock(sid, delta_t) ==
    [sid EXCEPT !.accumulator =
        [v \in Voices |-> (sid.accumulator[v] + delta_t * FreqRegister(sid, v)) % (2^24)]]

-----------------------------------------------------------------------------
(* FSIDChipOperator *)

\* the node as constructed (member initialisers and constructor body);
\* gateLog is the gate bit of voice 1 before the last block, followed by the
\* gate bit each sample of that block was clocked with
ChipConstructed(rate) ==
    [SID              |-> SIDEnableFilter(SIDSetChipModel(SIDReset(SIDConstructed), "MOS6581"), TRUE),
     CurrentChipModel |-> "MOS6581",
     SampleRate       |-> rate,
     CycleAccumulator |-> 0,
     bGateOn          |-> [v \in Voices |-> FALSE],
     gateLog          |-> <<>>]

\* a faulty Reset that leaves the fractional cycles of the last block behind
ChipReset_KeepsAccumulator(c) ==
    [c EXCEPT !.SID = SIDEnableFilter(SIDSetChipModel(SIDReset(c.SID), c.CurrentChipModel), TRUE),
              !.bGateOn = [v \in Voices |-> FALSE],
              !.gateLog = <<>>]

\* a faulty Reset that leaves the gates as the last block toggled them
ChipReset_KeepsGates(c) ==
    [c EXCEPT !.SID = SIDEnableFilter(SIDSetChipModel(SIDReset(c.SID), c.CurrentChipModel), TRUE),
              !.CycleAccumulator = 0,
              !.gateLog = <<>>]

\* void Reset(const IOperator::FResetParams&)
ChipReset(c) ==
    [c EXCEPT !.SID = SIDEnableFilter(SIDSetChipModel(SIDReset(c.SID), c.CurrentChipModel), TRUE),
              !.CycleAccumulator = 0,
              !.bGateOn = [v \in Voices |-> FALSE],
              !.gateLog = <<>>]

\* Execute, "Update chip model"
ChipUpdateModel(c, in) ==
    IF in.ChipModel # c.CurrentChipModel
    THEN [c EXCEPT !.CurrentChipModel = in.ChipModel,
                   !.SID = SIDSetChipModel(c.SID, in.ChipModel)]
    ELSE c

\* Execute, "Update resonance boost": ResBoost > 0.001f holds from 1/4 on
ChipUpdateResBoost(sid, in) ==
    SIDEnableResBoost(SIDSetResBoost(sid, ScaleUnit(in.ResBoost, 255)),
                      ClampUnit(in.ResBoost) > 0)

\* the control register value: WaveBits | (bGateOn[v] ? 0x01 : 0x00)
ControlValue(wave, gate) == BitOr(WaveBitsOf(wave), IF gate THEN 1 ELSE 0)

\* Execute, the register writes of voice v (the body of the first loop)
ChipWriteVoice(sid, v, in, gate) ==
    LET RegBase == v * 7
        SIDFreq == SIDFreqOf(ClampFreq(in.Freq[v]))
        PWVal   == ScaleUnit(in.PW[v], 4095)
        A       == Clamp(in.A[v], 0, 15)
        D       == Clamp(in.D[v], 0, 15)
        S       == Clamp(in.S[v], 0, 15)
        R       == Clamp(in.R[v], 0, 15)
        s0 == SIDWrite(sid, RegBase + 0, SIDFreq % 256)
        s1 == SIDWrite(s0, RegBase + 1, (SIDFreq \div 256) % 256)
        s2 == SIDWrite(s1, RegBase + 2, PWVal % 256)
        s3 == SIDWrite(s2, RegBase + 3, (PWVal \div 256) % 16)
        s4 == SIDWrite(s3, RegBase + 4, ControlValue(in.Wave[v], gate))
        s5 == SIDWrite(s4, RegBase + 5, BitOr(A * 16, D))
    IN  SIDWrite(s5, RegBase + 6, BitOr(S * 16, R))

\* Execute, the filter and volume register writes (0x15-0x18)
ChipWriteFilter(sid, in) ==
    LET FCValue  == ScaleUnit(in.Cutoff, 2047)
        ResValue == ScaleUnit(in.Resonance, 15)
        Routing  == Clamp(in.Routing, 0, 15)
        VolValue == ScaleUnit(in.Volume, 15)
        s0 == SIDWrite(sid, 21, FCValue % 8)
        s1 == SIDWrite(s0, 22, FCValue \div 8)
        s2 == SIDWrite(s1, 23, BitOr(ResValue * 16, Routing % 16))
    IN  SIDWrite(s2, 24, BitOr(ModeBitsOf(in.Mode), VolValue))

\* Execute, "Check for gate toggles on each voice": every trigger of the
\* block toggles bGateOn[v] and re-writes the control register
ChipGateToggle(c, v, in) ==
    IF in.Trigger[v]
    THEN [c EXCEPT !.bGateOn[v] = ~c.bGateOn[v],
                   !.SID = SIDWrite(c.SID, v * 7 + 4, ControlValue(in.Wave[v], ~c.bGateOn[v]))]
    ELSE c

RECURSIVE ChipGenerate(_, _)
\* Execute, "Generate audio samples": accumulate, SID.clock(WholeCycles)
ChipGenerate(c, n) ==
    IF n = 0 THEN c
    ELSE LET a == AccumulateSample([acc |-> c.CycleAccumulator, whole |-> 0, total |-> 0],
                                   CyclesPerSampleF(c.SampleRate))
         IN  ChipGenerate([c EXCEPT !.CycleAccumulator = a.acc,
                                    !.SID = SIDClock(c.SID, a.whole),
                                    !.gateLog = Append(@, c.SID.reg[4] % 2)], n - 1)

\* void Execute()
ChipExecute(c, in) ==
    LET c1 == ChipUpdateModel([c EXCEPT !.gateLog = <<IF c.bGateOn[0] THEN 1 ELSE 0>>], in)
        s2 == ChipUpdateResBoost(c1.SID, in)
        s3 == ChipWriteVoice(ChipWriteVoice(ChipWriteVoice(s2, 0, in, c1.bGateOn[0]),
                                            1, in, c1.bGateOn[1]),
                             2, in, c1.bGateOn[2])
        c4 == [c1 EXCEPT !.SID = ChipWriteFilter(s3, in)]
        c5 == ChipGateToggle(ChipGateToggle(ChipGateToggle(c4, 0, in), 1, in), 2, in)
    IN  ChipGenerate(c5, in.NumSamples)

-----------------------------------------------------------------------------
(* FSIDEnvelopeOperator.  EnvelopeGenerator is defined in envelope.h, which  *)
(* is not part of the sources; its registers and reset are modelled from the *)
(* specification (sections 3 and 4.3), its running state by the cycles it    *)
(* has been clocked since the last reset.                                    *)

\* EnvelopeGenerator::reset(): registers zero, gate off, running state at rest
EnvGenReset(g) == [attack_decay |-> 0, sustain_release |-> 0, gate |-> 0, clocked |-> 0]

\* the node as constructed: reset, then the default ADSR A=0 D=9, S=0 R=9;
\* gateLog is the gate before the last block, followed by the gate each
\* sample of that block was clocked with
EnvConstructed(rate) ==
    [EnvGen           |-> [EnvGenReset([attack_decay |-> 0, sustain_release |-> 0,
                                        gate |-> 0, clocked |-> 0])
                              EXCEPT !.attack_decay = 9, !.sustain_release = 9],
     SampleRate       |-> rate,
     CycleAccumulator |-> 0,
     bGateOn          |-> FALSE,
     gateLog          |-> <<>>]

\* void Reset(const IOperator::FResetParams&)
EnvReset(e) ==
    [e EXCEPT !.EnvGen = EnvGenReset(e.EnvGen),
              !.CycleAccumulator = 0,
              !.bGateOn = FALSE,
              !.gateLog = <<>>]

RECURSIVE EnvGenerate(_, _)
\* the sample loops of Execute: accumulate, EnvGen.clock(WholeCycles)
EnvGenerate(e, n) ==
    IF n = 0 THEN e
    ELSE LET a == AccumulateSample([acc |-> e.CycleAccumulator, whole |-> 0, total |-> 0],
                                   CyclesPerSampleF(e.SampleRate))
         IN  EnvGenerate([e EXCEPT !.CycleAccumulator = a.acc,
                                   !.EnvGen.clocked = e.EnvGen.clocked + a.whole,
                                   !.gateLog = Append(@, e.EnvGen.gate)], n - 1)

\* void Execute(): ADSR writes, then GateInput->ExecuteBlock: without a
\* trigger the whole block is clocked; with a trigger at TriggerFrame the
\* frames before it are clocked, the gate is toggled and the control
\* register written, and the frames from TriggerFrame on are clocked
EnvExecute(e, in) ==
    LET e1 == [e EXCEPT !.EnvGen.attack_decay =
                            BitOr(Clamp(in.A, 0, 15) * 16, Clamp(in.D, 0, 15)),
                        !.EnvGen.sustain_release =
                            BitOr(Clamp(in.S, 0, 15) * 16, Clamp(in.R, 0, 15)),
                        !.gateLog = <<IF e.bGateOn THEN 1 ELSE 0>>]
        e2 == EnvGenerate(e1, in.TriggerFrame)
        e3 == [e2 EXCEPT !.bGateOn = ~e2.bGateOn,
                         !.EnvGen.gate = IF ~e2.bGateOn THEN 1 ELSE 0]
    IN  IF in.Trigger THEN EnvGenerate(e3, in.NumSamples - in.TriggerFrame)
        ELSE EnvGenerate(e1, in.NumSamples)

\* the envelope node of the graph is fed the ADSR and trigger of voice 1
EnvInputOf(in) ==
    [A |-> in.A[0], D |-> in.D[0], S |-> in.S[0], R |-> in.R[0],
     Trigger |-> in.Trigger[0], TriggerFrame |-> in.TriggerFrame,
     NumSamples |-> in.NumSamples]

\* the inputs a node is created with (GetVertexInterface defaults), no
\* trigger; TriggerFrame is the frame of the block at which the triggers fire
DefaultInput ==
    [ChipModel |-> "MOS6581", ResBoost |-> 0,
     Freq      |-> [v \in Voices |-> 8 * 440],
     PW        |-> [v \in Voices |-> 2],
     Wave      |-> [v \in Voices |-> "Sawtooth"],
     A         |-> [v \in Voices |-> 0],
     D         |-> [v \in Voices |-> 9],
     S         |-> [v \in Voices |-> 0],
     R         |-> [v \in Voices |-> 9],
     Cutoff    |-> 2, Resonance |-> 0, Mode |-> "LowPass", Routing |-> 1, Volume |-> 4,
     Trigger   |-> [v \in Voices |-> FALSE], TriggerFrame |-> 0,
     NumSamples |-> 1]

\* frequency inputs, in eighths of a Hz: below the range, 0.125, 440, 3848
\* (the last that fits 16 bits), 3849, 5000, 20000 and above the range
FreqInputs == {-8, 1, 8 * 440, 8 * 3848, 8 * 3849, 8 * 5000, 8 * 20000, 8 * 25000}

\* the inputs of one block: the defaults with one parameter changed
ChipInputs ==
    {DefaultInput}
    \cup {[DefaultInput EXCEPT !.Freq[0] = f] : f \in FreqInputs}
    \cup {[DefaultInput EXCEPT !.Freq[2] = 8 * 5000, !.Wave[2] = "Pulse"]}
    \cup {[DefaultInput EXCEPT !.PW[1] = q, !.Wave[1] = "PulseSawTri"] : q \in {-1, 1, 6}}
    \cup {[DefaultInput EXCEPT !.A[0] = n, !.S[0] = n] : n \in {-1, 15, 16}}
    \cup {[DefaultInput EXCEPT !.D[1] = n, !.R[1] = n] : n \in {-1, 16}}
    \cup {[DefaultInput EXCEPT !.Cutoff = q] : q \in {-1, 4, 6}}
    \cup {[DefaultInput EXCEPT !.Resonance = 4, !.Routing = 0],
          [DefaultInput EXCEPT !.Resonance = 6, !.Routing = 16],
          [DefaultInput EXCEPT !.Resonance = -1, !.Routing = -1]}
    \cup {[DefaultInput EXCEPT !.Volume = 0, !.Mode = "BandPass"],
          [DefaultInput EXCEPT !.Volume = 2, !.Mode = "All"],
          [DefaultInput EXCEPT !.Volume = 6, !.Mode = "Notch"]}
    \cup {[DefaultInput EXCEPT !.ChipModel = "MOS8580", !.ResBoost = q] : q \in {0, 4}}
    \cup {[DefaultInput EXCEPT !.ResBoost = 2]}
    \cup {[DefaultInput EXCEPT !.ChipModel = "MOS8580", !.Trigger[0] = TRUE, !.Freq[0] = 8 * 3848]}
    \cup {[DefaultInput EXCEPT !.Trigger[v] = TRUE] : v \in {0, 2}}
    \cup {[DefaultInput EXCEPT !.Trigger[1] = TRUE, !.NumSamples = 2]}
    \cup {[DefaultInput EXCEPT !.Trigger[0] = TRUE, !.TriggerFrame = 2, !.NumSamples = 4]}

-----------------------------------------------------------------------------
(* Filter (filter.h): scaling and dithering of the voices, routing, the    *)
(* two-integrator loop and the output mix.  The register writes, reset,    *)
(* set_chip_model, enable_filter, set_w0 and set_Q are defined in          *)
(* filter_impl.h and are modelled from the specification (section 4.4).    *)
(* sound_sample is a 32-bit int; the inputs keep every product below 2^31. *)

\* x >> n on a signed int (arithmetic shift)
Shr(x, n) == x \div (2^n)

\* int buffer[1024]
NoiseBufferSize == 1024

\* buffer[i] = rand() % (1 << 19): what the process-wide rand() sequence
\* returned when the instance was constructed; seed names one such outcome
NoiseAt(seed, i) == ((i + 1) * (37 + 64 * seed) * 4099) % (2^19)

\* the rand() outcomes considered
NoiseSeeds == {0, 1}

\* int voice_vol[3] = {256, 256, 256}
VoiceVol == 256

\* a faulty scaling that shifts by 3 bits instead of 7
ScaleVoice_ShortShift(voice, dither, noise) ==
    IF dither THEN Shr(Shr(voice + Shr(noise, 12), 3) * VoiceVol, 8)
    ELSE Shr(Shr(voice, 3) * VoiceVol, 8)

\* ((voice + (rnd.getNoise() >> 12)) >> 7) * voice_vol[i] >> 8, or without
\* the noise when dithering is disabled
ScaleVoice(voice, dither, noise) ==
    IF dither THEN Shr(Shr(voice + Shr(noise, 12), 7) * VoiceVol, 8)
    ELSE Shr(Shr(voice, 7) * VoiceVol, 8)

\* index = (index + 1) & 0x3ff
NextIndex(index) == (index + 1) % NoiseBufferSize

\* the first part of Filter::clock: the voices scaled from 20 to 13 bits;
\* each dithered voice takes the next noise value
FilterScale(f, in) ==
    LET d  == f.dithering_enabled
        i1 == IF d THEN NextIndex(f.index) ELSE f.index
        i2 == IF d THEN NextIndex(i1) ELSE i1
        silent3 == f.voice3off = 1 /\ (f.filt \div 4) % 2 = 0
        i3 == IF d /\ ~silent3 THEN NextIndex(i2) ELSE i2
    IN  [voice1 |-> ScaleVoice(in.voice1, d, NoiseAt(f.seed, i1)),
         voice2 |-> ScaleVoice(in.voice2, d, NoiseAt(f.seed, i2)),
         voice3 |-> IF silent3 THEN 0 ELSE ScaleVoice(in.voice3, d, NoiseAt(f.seed, i3)),
         ext_in |-> Shr(in.ext_in, 7),
         index  |-> i3]

\* bit b of the routing mask filt
Routed(filt, b) == (filt \div (2^b)) % 2 = 1

\* switch (filt): Vi, the sum of the routed inputs
RouteVi(filt, s) ==
    (IF Routed(filt, 0) THEN s.voice1 ELSE 0) + (IF Routed(filt, 1) THEN s.voice2 ELSE 0)
    + (IF Routed(filt, 2) THEN s.voice3 ELSE 0) + (IF Routed(filt, 3) THEN s.ext_in ELSE 0)

\* switch (filt): Vnf, the sum of the inputs that bypass the filter
RouteVnf(filt, s) ==
    (IF Routed(filt, 0) THEN 0 ELSE s.voice1) + (IF Routed(filt, 1) THEN 0 ELSE s.voice2)
    + (IF Routed(filt, 2) THEN 0 ELSE s.voice3) + (IF Routed(filt, 3) THEN 0 ELSE s.ext_in)

\* fc_point tables of the two chip models, reduced to five points each
F0Points(model) ==
    IF model = "MOS6581"
    THEN <<[fc |-> 0, f0 |-> 220], [fc |-> 512, f0 |-> 420], [fc |-> 1024, f0 |-> 4600],
           [fc |-> 1536, f0 |-> 14500], [fc |-> 2047, f0 |-> 18000]>>
    ELSE <<[fc |-> 0, f0 |-> 0], [fc |-> 512, f0 |-> 3300], [fc |-> 1024, f0 |-> 6500],
           [fc |-> 1536, f0 |-> 9800], [fc |-> 2047, f0 |-> 12500]>>

\* f0[fc]: the cutoff frequency interpolated between the table points
F0(model, fc) ==
    LET pts == F0Points(model)
        k   == CHOOSE j \in 1..4 : pts[j].fc <= fc /\ fc <= pts[j + 1].fc
    IN  pts[k].f0 + ((fc - pts[k].fc) * (pts[k + 1].f0 - pts[k].f0)) \div (pts[k + 1].fc - pts[k].fc)

\* set_w0: w0 = 2*pi*f0[fc]*1.048576, limited to 2*pi*4000*1.048576 for
\* the delta_t clocking
W0CeilDt(f) ==
    LET w0 == (F0(f.model, f.fc) * 65884) \div 10000
    IN  IF w0 < 26353 THEN w0 ELSE 26353

\* set_Q: _1024_div_Q = 1024/Q, Q from 0.707 (res 0) to 1.7 (res 15), up to
\* about 5 with the resonance boost at 255
Div1024Q(f) == (1024 * 15300) \div (10817 + 1020 * f.res + 198 * f.res_boost)

\* mixer_DC: (-0xfff*0xff/18) >> 7 on the 6581, none on the 8580
MixerDC(f) == IF f.model = "MOS6581" THEN -454 ELSE 0

\* a faulty sub-step that takes all remaining cycles at once
SubStep_Whole(delta_t, delta_t_flt) == delta_t

\* if (delta_t < delta_t_flt) delta_t_flt = delta_t;
SubStep(delta_t, delta_t_flt) == IF delta_t < delta_t_flt THEN delta_t ELSE delta_t_flt

\* one pass through the body of while (delta_t); steps records the
\* sub-step sizes taken so far
LoopBody(st, w0_ceil_dt, div_Q, Vi) ==
    LET delta_t_flt == SubStep(st.delta_t, st.delta_t_flt)
        w0_delta_t  == Shr(w0_ceil_dt * delta_t_flt, 6)
        dVbp == Shr(w0_delta_t * st.Vhp, 14)
        dVlp == Shr(w0_delta_t * st.Vbp, 14)
        Vbp  == st.Vbp - dVbp
        Vlp  == st.Vlp - dVlp
    IN  [delta_t     |-> st.delta_t - delta_t_flt,
         delta_t_flt |-> delta_t_flt,
         Vhp         |-> Shr(Vbp * div_Q, 10) - Vlp - Vi,
         Vbp         |-> Vbp,
         Vlp         |-> Vlp,
         steps       |-> Append(st.steps, delta_t_flt)]

\* cycle_count delta_t_flt = 8; the state on entry to the loop
LoopEntry(f, delta_t) ==
    [delta_t |-> delta_t, delta_t_flt |-> 8,
     Vhp |-> f.Vhp, Vbp |-> f.Vbp, Vlp |-> f.Vlp, steps |-> <<>>]

RECURSIVE FilterIntegrate(_, _, _, _)
\* while (delta_t) { ... }
FilterIntegrate(st, w0_ceil_dt, div_Q, Vi) ==
    IF st.delta_t = 0 THEN st
    ELSE FilterIntegrate(LoopBody(st, w0_ceil_dt, div_Q, Vi), w0_ceil_dt, div_Q, Vi)

\* a faulty bypass that leaves the integrators as they were
FilterBypass_KeepsState(f, s) ==
    [f EXCEPT !.index = s.index,
              !.Vnf = s.voice1 + s.voice2 + s.voice3 + s.ext_in]

\* if (!enabled) { Vnf = voice1 + voice2 + voice3 + ext_in; Vhp = Vbp = Vlp = 0; return; }
FilterBypass(f, s) ==
    [f EXCEPT !.index = s.index,
              !.Vnf = s.voice1 + s.voice2 + s.voice3 + s.ext_in,
              !.Vhp = 0, !.Vbp = 0, !.Vlp = 0]

\* void Filter::clock(cycle_count delta_t, voice1, voice2, voice3, ext_in)
FilterClock(f, in) ==
    LET s == FilterScale(f, in)
    IN  IF ~f.enabled THEN FilterBypass(f, s)
        ELSE LET r == FilterIntegrate(LoopEntry(f, in.delta_t), W0CeilDt(f), Div1024Q(f),
                                      RouteVi(f.filt, s))
             IN  [f EXCEPT !.index = s.index,
                           !.Vnf = RouteVnf(f.filt, s),
                           !.Vhp = r.Vhp, !.Vbp = r.Vbp, !.Vlp = r.Vlp]

\* switch (hp_bp_lp): Vf, the sum of the selected filter taps
FilterVf(f) ==
    (IF f.hp_bp_lp % 2 = 1 THEN f.Vlp ELSE 0)
    + (IF (f.hp_bp_lp \div 2) % 2 = 1 THEN f.Vbp ELSE 0)
    + (IF (f.hp_bp_lp \div 4) % 2 = 1 THEN f.Vhp ELSE 0)

\* a faulty output without the mixer DC offset
FilterOutput_NoDC(f) ==
    IF ~f.enabled THEN f.Vnf * f.vol
    ELSE (f.Vnf + FilterVf(f)) * f.vol

\* sound_sample Filter::output()
FilterOutput(f) ==
    IF ~f.enabled THEN (f.Vnf + MixerDC(f)) * f.vol
    ELSE (f.Vnf + FilterVf(f) + MixerDC(f)) * f.vol

\* Filter::Filter(): registers and integrators zero, 6581, filter enabled,
\* dithering on, no resonance boost, noise buffer filled from rand()
FilterConstructed(seed) ==
    [enabled |-> TRUE, fc |-> 0, res |-> 0, filt |-> 0, voice3off |-> 0,
     hp_bp_lp |-> 0, vol |-> 0, model |-> "MOS6581",
     Vhp |-> 0, Vbp |-> 0, Vlp |-> 0, Vnf |-> 0,
     dithering_enabled |-> TRUE, res_boost |-> 0, index |-> 0, seed |-> seed]

\* void Filter::reset(): registers and integrators to zero
FilterReset(f) ==
    [f EXCEPT !.fc = 0, !.res = 0, !.filt = 0, !.voice3off = 0, !.hp_bp_lp = 0, !.vol = 0,
              !.Vhp = 0, !.Vbp = 0, !.Vlp = 0, !.Vnf = 0]

\* void Filter::writeFC_LO(reg8): the low 3 bits of the cutoff
FilterWriteFC_LO(f, value) == [f EXCEPT !.fc = (f.fc \div 8) * 8 + (value % 8)]

\* void Filter::writeFC_HI(reg8): the high 8 bits of the cutoff
FilterWriteFC_HI(f, value) == [f EXCEPT !.fc = (value % 256) * 8 + (f.fc % 8)]

\* void Filter::writeRES_FILT(reg8): resonance and routing mask
FilterWriteRES_FILT(f, value) == [f EXCEPT !.res = (value \div 16) % 16, !.filt = value % 16]

\* void Filter::writeMODE_VOL(reg8): voice 3 off, filter taps, master volume
FilterWriteMODE_VOL(f, value) ==
    [f EXCEPT !.voice3off = (value \div 128) % 2,
              !.hp_bp_lp = (value \div 16) % 8,
              !.vol = value % 16]

\* void Filter::set_chip_model(chip_model)
FilterSetChipModel(f, model) == [f EXCEPT !.model = model]

\* void Filter::enable_filter(bool)
FilterEnableFilter(f, enable) == [f EXCEPT !.enabled = enable]

\* void Filter::enable_dithering(bool)
FilterEnableDithering(f, enable) == [f EXCEPT !.dithering_enabled = enable]

\* void Filter::set_resonance_boost(int)
FilterSetResonanceBoost(f, boost) == [f EXCEPT !.res_boost = boost]

\* FSIDFilterOperator::FSIDFilterOperator: voice 1 routed, low-pass, full volume
FilterNodeConstructed(seed) ==
    FilterWriteMODE_VOL(
        FilterWriteRES_FILT(
            FilterSetChipModel(FilterEnableFilter(FilterConstructed(seed), TRUE), "MOS6581"),
            1),
        31)

\* FSIDFilterOperator::Reset (CurrentChipModel is the filter's model)
FilterNodeReset(f) ==
    FilterWriteMODE_VOL(
        FilterWriteRES_FILT(
            FilterSetChipModel(FilterEnableFilter(FilterReset(f), TRUE), f.model),
            1),
        31)

-----------------------------------------------------------------------------
(* Specifications *)

\* host sample rates the nodes are constructed with
SampleRates == {8000, 44100, 48000, 96000}

\* block lengths (NumSamples) the host renders
BlockSizes == {1, 4}

\* the chip node while another specification runs
ChipIdle ==
    /\ chip = ChipConstructed(48000)
    /\ chipOp = "Construct"
    /\ chipIn = DefaultInput
    /\ chipBlocks = 0
    /\ env = EnvConstructed(48000)

\* the clock accumulator while another specification runs
ClockIdle ==
    /\ SampleRate = 48000
    /\ CycleAccumulator = 0
    /\ WholeCycles = 0
    /\ totalCycles = 0
    /\ nSamples = 0

\* the arguments of a clock call with silent inputs
SilentClock == [delta_t |-> 0, voice1 |-> 0, voice2 |-> 0, voice3 |-> 0, ext_in |-> 0]

\* the filters while another specification runs
FilterIdle ==
    /\ flt = FilterNodeConstructed(0)
    /\ flt2 = FilterNodeConstructed(0)
    /\ fltPrev = FilterNodeConstructed(0)
    /\ fltOp = "Construct"
    /\ fltIn = SilentClock
    /\ fltRouted = FALSE
    /\ fltOps = 0

\* the loop before Filter::clock is entered
LoopIdle ==
    lp = [pc |-> "idle", total |-> 0, Vi |-> 0, st |-> LoopEntry(FilterNodeConstructed(0), 0)]

-----------------------------------------------------------------------------
(* The command server: the TCP thread (FAudioMCPTcpServer), the dispatcher
   (FAudioMCPCommandDispatcher) and the game thread that runs the handlers
   and ShutdownModule *)

\* connections clients open, and requests they send, in one run
MaxConnections == 2
MaxRequests == 2

GAME_THREAD_TIMEOUT_MS == 25000
PollIntervalMs == 500
MAX_MESSAGE_SIZE == 16777216

\* Converter.Length() of FTCHARToUTF8 for a string of s.units UTF-16 code
\* units, s.wide of them above U+07FF (three bytes each), the rest ASCII
Utf8Length(s) == (s.units - s.wide) + 3 * s.wide

\* a faulty header with the least significant byte first
EncodeHeader_LittleEndian(PayloadSize) ==
    << PayloadSize % 256, (PayloadSize \div 2^8) % 256,
       (PayloadSize \div 2^16) % 256, (PayloadSize \div 2^24) % 256 >>

\* Header[0..3]: (PayloadSize >> 24) & 0xFF, ..., PayloadSize & 0xFF
EncodeHeader(PayloadSize) ==
    << (PayloadSize \div 2^24) % 256, (PayloadSize \div 2^16) % 256,
       (PayloadSize \div 2^8) % 256, PayloadSize % 256 >>

\* the big-endian uint32 a reader decodes from four header bytes
DecodeHeader(HeaderBuf) ==
    HeaderBuf[1] * 2^24 + HeaderBuf[2] * 2^16 + HeaderBuf[3] * 2^8 + HeaderBuf[4]

\* SendResponse: the bytes it can leave on the wire. An oversized payload is
\* replaced by the 78-character error message; SendExact sends nothing once
\* bStopping is set, and a Send can fail after part of the header or payload
SendResponse(JsonString, stopping) ==
    LET str == IF Utf8Length(JsonString) > MAX_MESSAGE_SIZE
               THEN [units |-> 78, wide |-> 0] ELSE JsonString
        PayloadSize == Utf8Length(str)
        Header == EncodeHeader(PayloadSize)
    IN  IF stopping
        THEN {[hdr |-> <<>>, body |-> 0, str |-> str, ok |-> FALSE]}
        ELSE {[hdr |-> Header, body |-> PayloadSize, str |-> str, ok |-> TRUE],
              [hdr |-> SubSeq(Header, 1, 2), body |-> 0, str |-> str, ok |-> FALSE],
              [hdr |-> Header, body |-> PayloadSize - 1, str |-> str, ok |-> FALSE]}

\* the response strings a handler's result serialises to
HandlerResults ==
    {[units |-> 60, wide |-> 4], [units |-> MAX_MESSAGE_SIZE, wide |-> 0],
     [units |-> MAX_MESSAGE_SIZE - 1, wide |-> 1]}

\* StartupModule: the three subsystems created (TRUE: the pointer is set),
\* the server listening, its thread in Run, no client; start records, for
\* every request, the game thread's position when its handler was started
SrvConstructed ==
    [pc |-> "run", bStopping |-> FALSE, bShuttingDown |-> FALSE, bAlive |-> TRUE,
     ListenSocket |-> "open", conns |-> 0, pending |-> 0, accepted |-> 0,
     sockets |-> {}, closed |-> {}, ClientSocket |-> 0, ActiveClientSocket |-> 0,
     inbox |-> <<>>, next |-> "hdr", msgs |-> 0, peerClosed |-> FALSE,
     req |-> 0, ElapsedMs |-> 0, queue |-> <<>>, running |-> 0,
     task |-> [i \in 1..MaxRequests |-> "none"],
     ret |-> [i \in 1..MaxRequests |-> "none"],
     late |-> [i \in 1..MaxRequests |-> FALSE],
     start |-> [i \in 1..MaxRequests |-> "none"],
     TcpServer |-> TRUE, Dispatcher |-> TRUE, BuilderManager |-> TRUE,
     resp |-> [units |-> 0, wide |-> 0], brk |-> FALSE,
     wire |-> [hdr |-> <<>>, body |-> 0, str |-> [units |-> 0, wide |-> 0], ok |-> FALSE],
     gt |-> "idle"]


\* CreateBuilder calls in one run
MaxBuilders == 3

\* node IDs, graph input names and graph output names the commands use
NodeIds == {"osc", "env"}
InputNames == {"OnPlay", "Freq"}
OutputNames == {"OnFinished", "Audio:0", "Out"}

\* FAudioMCPBuilderManager::FAudioMCPBuilderManager: no builder, empty
\* registries (0: no handle, n: a handle of the n-th builder), no audition;
\* playing are the audio components that are playing, op and ok the last
\* call and its return value, before what the last CreateBuilder found
BuilderConstructed ==
    [ActiveBuilder |-> 0, source |-> FALSE, builders |-> 0,
     NodeHandles |-> [id \in NodeIds |-> 0],
     GraphInputOutputHandles |-> [n \in InputNames |-> 0],
     GraphOutputInputHandles |-> [n \in OutputNames |-> 0],
     AuditionAudioComponent |-> 0, playing |-> {}, bLiveUpdatesRequested |-> FALSE,
     op |-> "Construct", ok |-> TRUE, before |-> [nodes |-> FALSE, audition |-> FALSE]]

\* the SID16 and its Filter as constructed
ExtConstructed == [sid |-> SIDConstructed, filter |-> FilterConstructed(0)]

\* the other state while a specification runs that does not use it
SideIdle(active) ==
    /\ (active = "ext" \/ ext = ExtConstructed)
    /\ (active = "srv" \/ srv = SrvConstructed)
    /\ (active = "mgr" \/ mgr = BuilderConstructed)

ClockInit ==
    /\ SampleRate \in SampleRates
    /\ CycleAccumulator = 0
    /\ WholeCycles = 0
    /\ totalCycles = 0
    /\ nSamples = 0
    /\ ChipIdle
    /\ FilterIdle
    /\ LoopIdle
    /\ SideIdle("none")

\* Execute(): the sample loop of one block
ClockExecute ==
    \E n \in BlockSizes :
        /\ nSamples + n <= MaxSamples
        /\ LET r == RenderLoop([acc |-> CycleAccumulator, whole |-> WholeCycles,
                                total |-> totalCycles],
                               CyclesPerSampleF(SampleRate), n)
           IN  /\ CycleAccumulator' = r.acc
               /\ WholeCycles' = r.whole
               /\ totalCycles' = r.total
        /\ nSamples' = nSamples + n
        /\ UNCHANGED <<SampleRate, chipVars, filterVars, lp, sideVars>>

\* Reset(): CycleAccumulator = 0.0f
ClockReset ==
    /\ nSamples > 0
    /\ CycleAccumulator' = 0
    /\ WholeCycles' = 0
    /\ totalCycles' = 0
    /\ nSamples' = 0
    /\ UNCHANGED <<SampleRate, chipVars, filterVars, lp, sideVars>>

ClockNext == ClockExecute \/ ClockReset

SpecClock == ClockInit /\ [][ClockNext]_vars

\* a graph with a chip node and an envelope node, constructed by the host at
\* 44.1 or 48 kHz
ChipInit ==
    /\ \E rate \in {44100, 48000} : chip = ChipConstructed(rate) /\ env = EnvConstructed(rate)
    /\ chipOp = "Construct"
    /\ chipIn = DefaultInput
    /\ chipBlocks = 0
    /\ ClockIdle
    /\ FilterIdle
    /\ LoopIdle
    /\ SideIdle("none")

\* the host renders one block: every node of the graph executes
ChipExecuteAction ==
    \E in \in ChipInputs :
        /\ chipBlocks < MaxBlocks
        /\ chip' = ChipExecute(chip, in)
        /\ env' = EnvExecute(env, EnvInputOf(in))
        /\ chipOp' = "Execute"
        /\ chipIn' = in
        /\ chipBlocks' = chipBlocks + 1
        /\ UNCHANGED <<clockVars, filterVars, lp, sideVars>>

\* the host resets the nodes of the graph between two blocks
ChipResetAction ==
    /\ chip' = ChipReset(chip)
    /\ env' = EnvReset(env)
    /\ chipOp' = "Reset"
    /\ UNCHANGED <<chipIn, chipBlocks, clockVars, filterVars, lp, sideVars>>

ChipNext == ChipExecuteAction \/ ChipResetAction

SpecChip == ChipInit /\ [][ChipNext]_vars

\* two filter nodes constructed one after the other: each Filter fills its
\* noise buffer from the process-wide rand() sequence
FilterInit ==
    /\ \E seed \in NoiseSeeds : flt = FilterNodeConstructed(seed)
    /\ \E seed \in NoiseSeeds : flt2 = FilterNodeConstructed(seed)
    /\ fltPrev = flt
    /\ fltOp = "Construct"
    /\ fltIn = SilentClock
    /\ fltRouted = FALSE
    /\ fltOps = 0
    /\ ClockIdle
    /\ ChipIdle
    /\ LoopIdle
    /\ SideIdle("none")

\* one call, made on both filters with the same arguments
FilterCall(op, f, f2) ==
    /\ fltOps < MaxFilterOps
    /\ flt' = f
    /\ flt2' = f2
    /\ fltPrev' = flt
    /\ fltOp' = op
    /\ fltOps' = fltOps + 1
    /\ UNCHANGED <<clockVars, chipVars, lp, sideVars>>

FltWriteFC_LO ==
    \E v \in {7} :
        /\ FilterCall("writeFC_LO", FilterWriteFC_LO(flt, v), FilterWriteFC_LO(flt2, v))
        /\ UNCHANGED <<fltIn, fltRouted>>

FltWriteFC_HI ==
    \E v \in {128, 255} :
        /\ FilterCall("writeFC_HI", FilterWriteFC_HI(flt, v), FilterWriteFC_HI(flt2, v))
        /\ UNCHANGED <<fltIn, fltRouted>>

FltWriteRES_FILT ==
    \E v \in {0, 240, 247} :
        /\ FilterCall("writeRES_FILT", FilterWriteRES_FILT(flt, v), FilterWriteRES_FILT(flt2, v))
        /\ UNCHANGED <<fltIn, fltRouted>>

FltWriteMODE_VOL ==
    \E v \in {15, 31, 255} :
        /\ FilterCall("writeMODE_VOL", FilterWriteMODE_VOL(flt, v), FilterWriteMODE_VOL(flt2, v))
        /\ UNCHANGED <<fltIn, fltRouted>>

FltSetChipModel ==
    \E model \in {"MOS6581", "MOS8580"} :
        /\ FilterCall("set_chip_model", FilterSetChipModel(flt, model), FilterSetChipModel(flt2, model))
        /\ UNCHANGED <<fltIn, fltRouted>>

FltEnableFilter ==
    \E b \in BOOLEAN :
        /\ FilterCall("enable_filter", FilterEnableFilter(flt, b), FilterEnableFilter(flt2, b))
        /\ UNCHANGED <<fltIn, fltRouted>>

FltEnableDithering ==
    \E b \in BOOLEAN :
        /\ FilterCall("enable_dithering", FilterEnableDithering(flt, b), FilterEnableDithering(flt2, b))
        /\ UNCHANGED <<fltIn, fltRouted>>

FltSetResonanceBoost ==
    \E boost \in {255} :
        /\ FilterCall("set_resonance_boost", FilterSetResonanceBoost(flt, boost),
                      FilterSetResonanceBoost(flt2, boost))
        /\ UNCHANGED <<fltIn, fltRouted>>

\* the inputs of a clock call: 20-bit voice samples
ClockInputs ==
    {[delta_t |-> d, voice1 |-> v.a, voice2 |-> v.b, voice3 |-> v.c, ext_in |-> 0] :
        d \in {0, 1, 21},
        v \in {[a |-> 400000, b |-> 0, c |-> 0], [a |-> 100, b |-> -300000, c |-> 200000]}}

FltClock ==
    \E in \in ClockInputs :
        /\ FilterCall("clock", FilterClock(flt, in), FilterClock(flt2, in))
        /\ fltIn' = in
        /\ fltRouted' = (fltRouted \/ (flt.enabled /\ flt.filt # 0 /\ in.delta_t > 0))

\* FSIDFilterOperator::Reset
FltReset ==
    /\ FilterCall("Reset", FilterNodeReset(flt), FilterNodeReset(flt2))
    /\ fltRouted' = FALSE
    /\ UNCHANGED fltIn

FilterNext ==
    \/ FltWriteFC_LO \/ FltWriteFC_HI \/ FltWriteRES_FILT \/ FltWriteMODE_VOL
    \/ FltSetChipModel \/ FltEnableFilter \/ FltEnableDithering \/ FltSetResonanceBoost
    \/ FltClock \/ FltReset

SpecFilter == FilterInit /\ [][FilterNext]_vars

\* the loop state before the first call of Filter::clock
LoopInit ==
    /\ LoopIdle
    /\ ClockIdle
    /\ ChipIdle
    /\ FilterIdle
    /\ SideIdle("none")

\* Filter::clock is entered with delta_t cycles and a routed input Vi
LoopEnter ==
    /\ lp.pc \in {"idle", "done"}
    /\ \E delta_t \in 0..MaxDelta, Vi \in {0, 3125} :
           lp' = [pc |-> "loop", total |-> delta_t, Vi |-> Vi,
                  st |-> LoopEntry(FilterNodeConstructed(0), delta_t)]
    /\ UNCHANGED <<clockVars, chipVars, filterVars, sideVars>>

\* while (delta_t) holds: one pass through the body
LoopIter ==
    /\ lp.pc = "loop"
    /\ lp.st.delta_t # 0
    /\ lp' = [lp EXCEPT !.st = LoopBody(lp.st, W0CeilDt(FilterNodeConstructed(0)),
                                         Div1024Q(FilterNodeConstructed(0)), lp.Vi)]
    /\ UNCHANGED <<clockVars, chipVars, filterVars, sideVars>>

\* while (delta_t) fails: Filter::clock returns
LoopExit ==
    /\ lp.pc = "loop"
    /\ lp.st.delta_t = 0
    /\ lp' = [lp EXCEPT !.pc = "done"]
    /\ UNCHANGED <<clockVars, chipVars, filterVars, sideVars>>

LoopNext == LoopEnter \/ LoopIter \/ LoopExit

\* the call runs to completion once entered (single-threaded, no suspension)
SpecLoop == LoopInit /\ [][LoopNext]_vars /\ WF_vars(LoopIter) /\ WF_vars(LoopExit)

-----------------------------------------------------------------------------
(* One SID16 driven through write() and the resonance-boost extension API *)

ExtInit ==
    /\ ext = ExtConstructed
    /\ ClockIdle
    /\ ChipIdle
    /\ FilterIdle
    /\ LoopIdle
    /\ SideIdle("ext")

\* a call on the SID16 that leaves it as s and hands boost to
\* filter.set_resonance_boost
ExtCall(s, f) ==
    /\ ext' = [sid |-> s, filter |-> f]
    /\ UNCHANGED <<clockVars, chipVars, filterVars, lp, srv, mgr>>

\* sid.setResBoost(boost)
ExtSetResBoost ==
    \E boost \in {0, 128, 255} :
        LET s == SIDSetResBoost(ext.sid, boost)
        IN  ExtCall(s, FilterSetResonanceBoost(ext.filter, s.filter_res_boost))

\* sid.enableResBoost(enable)
ExtEnableResBoost ==
    \E enable \in BOOLEAN :
        LET s == SIDEnableResBoost(ext.sid, enable)
        IN  ExtCall(s, FilterSetResonanceBoost(ext.filter, s.filter_res_boost))

\* sid.write(0x17, value) and sid.write(0x18, value): the filter registers
ExtWrite ==
    \E offset \in {23, 24}, value \in {0, 31, 128, 241} :
        ExtCall(SIDWrite(ext.sid, offset, value),
                IF offset = 23 THEN FilterWriteRES_FILT(ext.filter, value)
                ELSE FilterWriteMODE_VOL(ext.filter, value))

ExtNext == ExtSetResBoost \/ ExtEnableResBoost \/ ExtWrite

SpecExt == ExtInit /\ [][ExtNext]_vars

-----------------------------------------------------------------------------
(* Claims *)

\* |x| on the integers
Abs(x) == IF x < 0 THEN -x ELSE x

\* C1: after N samples the sum of the whole-cycle counts handed to the chip
\* differs from N * clock_rate / sample_rate by less than one cycle, i.e.
\* |totalCycles * SampleRate - N * SIDClockRate| < SampleRate.
C1_DriftBelowOneCycle ==
    Abs(totalCycles * SampleRate - nSamples * SIDClockRate) < SampleRate

\* C9: every cycle count handed to the chip is a non-negative integer and the
\* fractional remainder carried to the next sample stays in [0, 1).
C9_CyclesNonNegRemainderInUnit ==
    /\ WholeCycles \in Nat
    /\ CycleAccumulator >= 0
    /\ CycleAccumulator < FUnit

\* C9 witness: many samples rendered, a non-zero remainder is being carried
C9_Witness ==
    /\ nSamples >= 100
    /\ WholeCycles > 0
    /\ CycleAccumulator > 0

-----------------------------------------------------------------------------
(* The chip node: frequency register, clamping, Reset *)

RECURSIVE LongDiv(_, _, _, _)
\* binary long division: quotient and remainder of (q + r/d) * 2^up by 1
LongDiv(q, r, d, up) ==
    IF up = 0 THEN [q |-> q, r |-> r]
    ELSE LongDiv(2 * q + ((2 * r) \div d), (2 * r) % d, d, up - 1)

\* round(n * 2^up / d), computed exactly
RoundedQuot(n, d, up) ==
    LET e == LongDiv(n \div d, n % d, d, up)
    IN  IF 2 * e.r >= d THEN e.q + 1 ELSE e.q

\* round(f * 2^24 / clockRate) for f = freq8 / 8 Hz
IdealFreqRegister(freq8) == RoundedQuot(freq8, SIDClockRate \div 32, 16)

\* round(f * 2^24 / clockRate) for the input clamped to [0.1, 20000] Hz
ClampedFreqRegister(freq8) ==
    IF freq8 < 1 THEN RoundedQuot(1, 10 * (SIDClockRate \div 32), 19)
    ELSE IF freq8 < 8 * 20000 THEN IdealFreqRegister(freq8)
    ELSE IdealFreqRegister(8 * 20000)

\* the input frequency lies in [0.1, 20000] Hz
FreqInRange(freq8) == freq8 >= 1 /\ freq8 <= 8 * 20000

\* C4: for every input frequency f in [0.1, 20000] Hz the frequency register
\* stored in the chip after the parameter write is round(f * 2^24 / clockRate),
\* up to one unit of rounding.
C4_FreqRegisterIsRounded ==
    chipOp = "Execute" =>
        \A v \in Voices :
            FreqInRange(chipIn.Freq[v]) =>
                Abs(FreqRegister(chip.SID, v) - IdealFreqRegister(chipIn.Freq[v])) <= 1

\* C10: after a block every register holds the encoding of its input clamped
\* to the documented range: frequency, pulse width, ADSR nibbles, cutoff,
\* resonance and volume.
C10_RegistersHoldClampedInputs ==
    chipOp = "Execute" =>
        /\ \A v \in Voices :
            /\ Abs(FreqRegister(chip.SID, v) - ClampedFreqRegister(chipIn.Freq[v])) <= 1
            /\ PWRegister(chip.SID, v) = (Clamp(chipIn.PW[v], 0, 4) * 4095) \div 4
            /\ chip.SID.reg[7 * v + 5] = 16 * Clamp(chipIn.A[v], 0, 15) + Clamp(chipIn.D[v], 0, 15)
            /\ chip.SID.reg[7 * v + 6] = 16 * Clamp(chipIn.S[v], 0, 15) + Clamp(chipIn.R[v], 0, 15)
        /\ FCRegister(chip.SID) = (Clamp(chipIn.Cutoff, 0, 4) * 2047) \div 4
        /\ chip.SID.reg[23] \div 16 = (Clamp(chipIn.Resonance, 0, 4) * 15) \div 4
        /\ chip.SID.reg[24] % 16 = (Clamp(chipIn.Volume, 0, 4) * 15) \div 4

\* the node without the extension settings of its SID
ChipCore(c) ==
    [reg              |-> c.SID.reg,
     accumulator      |-> c.SID.accumulator,
     model            |-> c.SID.model,
     filter_enabled   |-> c.SID.filter_enabled,
     CurrentChipModel |-> c.CurrentChipModel,
     SampleRate       |-> c.SampleRate,
     CycleAccumulator |-> c.CycleAccumulator,
     bGateOn          |-> c.bGateOn]

\* registers silent, oscillators at rest, gates off, clock accumulator zero
ChipSilent(c) ==
    /\ \A a \in Registers : c.SID.reg[a] = 0
    /\ \A v \in Voices : c.SID.accumulator[v] = 0 /\ ~c.bGateOn[v]
    /\ c.CycleAccumulator = 0
    /\ c.SID.filter_enabled

-----------------------------------------------------------------------------
(* The filter: determinism, routing, sub-stepping, integrator state *)

\* C2: two freshly constructed instances given the same register writes and
\* clock calls produce the same output.
C2_InstancesAgree == FilterOutput(flt) = FilterOutput(flt2)

\* the unfiltered voice mix of the last clock call: the scaled inputs
UnfilteredMix ==
    LET s == FilterScale(fltPrev, fltIn)
    IN  s.voice1 + s.voice2 + s.voice3 + s.ext_in

\* C5 as stated: with routing mask 0 the output after a clock call is the
\* unfiltered voice mix scaled by the master volume.
C5_UnroutedOutputIsMixTimesVolume ==
    (fltOp = "clock" /\ flt.filt = 0) => FilterOutput(flt) = UnfilteredMix * flt.vol

\* C5: with routing mask 0 in every clock call since construction or Reset,
\* the output after a clock call is the unfiltered voice mix plus the mixer
\* DC offset of the chip model, scaled by the master volume, whatever the
\* cutoff and resonance registers hold.
C5_UnroutedOutputIsMixPlusDC ==
    (fltOp = "clock" /\ flt.filt = 0 /\ ~fltRouted) =>
        /\ FilterOutput(flt) = (UnfilteredMix + MixerDC(flt)) * flt.vol
        /\ \A fc \in {0, 1031, 2047}, res \in {0, 15} :
               FilterOutput(FilterClock([fltPrev EXCEPT !.fc = fc, !.res = res], fltIn))
                   = FilterOutput(flt)

\* C5 witness: a clock call with nothing routed, a filter tap selected, the
\* volume up, a 6581 and voices sounding
C5_Witness ==
    /\ fltOp = "clock"
    /\ flt.filt = 0
    /\ ~fltRouted
    /\ flt.enabled
    /\ flt.hp_bp_lp # 0
    /\ flt.vol = 15
    /\ flt.model = "MOS6581"
    /\ fltIn.delta_t = 21
    /\ UnfilteredMix # 0

\* the integrator voltages of a filter
Integrators(f) == <<f.Vhp, f.Vbp, f.Vlp>>

\* C7 as stated: apart from an explicit reset and from the integration of an
\* enabled clock call, no call changes the integrator state; in particular
\* none sets it back to zero.
C7_OnlyResetClearsIntegrators ==
    (fltOp \notin {"Construct", "Reset"} /\ ~(fltOp = "clock" /\ fltPrev.enabled)) =>
        Integrators(flt) = Integrators(fltPrev)

\* C7: the integrator state is set to zero by an explicit reset and by a
\* clock call made while the filter is disabled; a register write, a chip
\* model change, an enable/disable switch or an extension setting leaves it
\* unchanged, and an enabled clock call continues the integration from it.
C7_IntegratorsKeptExceptResetAndBypass ==
    /\ fltOp \in {"writeFC_LO", "writeFC_HI", "writeRES_FILT", "writeMODE_VOL", "set_chip_model",
                  "enable_filter", "enable_dithering", "set_resonance_boost"} =>
           Integrators(flt) = Integrators(fltPrev)
    /\ (fltOp = "clock" /\ fltPrev.enabled /\ fltIn.delta_t = 0) =>
           Integrators(flt) = Integrators(fltPrev)
    /\ (fltOp = "clock" /\ fltPrev.enabled) =>
           LET r == FilterIntegrate(LoopEntry(fltPrev, fltIn.delta_t), W0CeilDt(fltPrev),
                                    Div1024Q(fltPrev),
                                    RouteVi(fltPrev.filt, FilterScale(fltPrev, fltIn)))
           IN  Integrators(flt) = <<r.Vhp, r.Vbp, r.Vlp>>
    /\ (fltOp = "clock" /\ ~fltPrev.enabled) => Integrators(flt) = <<0, 0, 0>>
    /\ fltOp = "Reset" => Integrators(flt) = <<0, 0, 0>>

\* C7 witness: a clock call on a disabled filter whose integrators held a signal
C7_Witness ==
    /\ fltOp = "clock"
    /\ ~fltPrev.enabled
    /\ Integrators(fltPrev) # <<0, 0, 0>>
    /\ Integrators(flt) = <<0, 0, 0>>

RECURSIVE SumSeq(_)
\* the sum of a sequence of integers
SumSeq(q) == IF q = <<>> THEN 0 ELSE q[1] + SumSeq(Tail(q))

\* C6: for every cycle count delta_t >= 0 passed to the multi-cycle clock,
\* each sub-step of the integrator loop takes between 1 and 8 cycles, the
\* sub-steps taken and the cycles left always add up to delta_t (so on return
\* the sub-steps sum to exactly delta_t), and the loop terminates.
C6_SubStepsBoundedAndTerminate ==
    /\ [](\A i \in 1..Len(lp.st.steps) : lp.st.steps[i] \in 1..8)
    /\ [](SumSeq(lp.st.steps) + lp.st.delta_t = lp.total)
    /\ [](lp.pc = "done" => SumSeq(lp.st.steps) = lp.total)
    /\ ((lp.pc = "loop") ~> (lp.pc = "done"))

\* C6 witness: a call with 21 cycles has returned after sub-steps of 8, 8 and 5
C6_Witness ==
    /\ lp.pc = "done"
    /\ lp.total = 21
    /\ lp.st.steps = <<8, 8, 5>>

-----------------------------------------------------------------------------------------------------------------------------------------------------
(* The command server: steps *)

SrvInit ==
    /\ srv = SrvConstructed
    /\ ClockIdle
    /\ ChipIdle
    /\ FilterIdle
    /\ LoopIdle
    /\ SideIdle("srv")

\* one step of the server that leaves it as s
SrvStep(s) ==
    /\ srv' = s
    /\ UNCHANGED <<clockVars, chipVars, filterVars, lp, ext, mgr>>

\* clients: connect to the listening port, send the header and then the
\* payload of a request, close the connection
Client ==
    \/ /\ srv.conns < MaxConnections
       /\ srv.ListenSocket = "open"
       /\ SrvStep([srv EXCEPT !.conns = @ + 1, !.pending = @ + 1])
    \/ /\ srv.ClientSocket # 0
       /\ ~srv.peerClosed
       /\ srv.next = "hdr"
       /\ srv.msgs < MaxRequests
       /\ \E h \in {"hdr_ok", "hdr_bad"} :
            SrvStep([srv EXCEPT !.inbox = Append(@, h),
                                !.next = IF h = "hdr_ok" THEN "payload" ELSE "none"])
    \/ /\ srv.ClientSocket # 0
       /\ ~srv.peerClosed
       /\ srv.next = "payload"
       /\ SrvStep([srv EXCEPT !.inbox = Append(@, "payload"), !.next = "hdr", !.msgs = @ + 1])
    \/ /\ srv.ClientSocket # 0
       /\ ~srv.peerClosed
       /\ SrvStep([srv EXCEPT !.peerClosed = TRUE])

\* a faulty Run that goes on to the next connection without DestroySocket
Run_NoDestroy ==
    \/ /\ srv.pc = "run"
       /\ srv.bStopping
       /\ SrvStep([srv EXCEPT !.pc = "exited"])
    \/ /\ srv.pc = "run"
       /\ ~srv.bStopping
       /\ srv.pending > 0
       /\ SrvStep([srv EXCEPT !.pc = "accept"])
    \/ /\ srv.pc = "accept"
       /\ srv.ListenSocket = "open"
       /\ LET id == srv.accepted + 1
          IN  SrvStep([srv EXCEPT !.pc = "register", !.accepted = id, !.pending = @ - 1,
                                  !.sockets = @ \cup {id}, !.ClientSocket = id,
                                  !.inbox = <<>>, !.next = "hdr", !.peerClosed = FALSE])
    \/ /\ srv.pc = "accept"
       /\ srv.ListenSocket # "open"
       /\ SrvStep([srv EXCEPT !.pc = "run", !.pending = @ - 1])
    \/ /\ srv.pc = "destroy"
       /\ SrvStep([srv EXCEPT !.pc = "run", !.ClientSocket = 0])

\* FAudioMCPTcpServer::Run: the loop test and WaitForPendingConnection, then
\* Accept, and DestroySocket after HandleClient has returned
Run ==
    \/ /\ srv.pc = "run"
       /\ srv.bStopping
       /\ SrvStep([srv EXCEPT !.pc = "exited"])
    \/ /\ srv.pc = "run"
       /\ ~srv.bStopping
       /\ srv.pending > 0
       /\ SrvStep([srv EXCEPT !.pc = "accept"])
    \/ /\ srv.pc = "accept"
       /\ srv.ListenSocket = "open"
       /\ LET id == srv.accepted + 1
          IN  SrvStep([srv EXCEPT !.pc = "register", !.accepted = id, !.pending = @ - 1,
                                  !.sockets = @ \cup {id}, !.ClientSocket = id,
                                  !.inbox = <<>>, !.next = "hdr", !.peerClosed = FALSE])
    \/ /\ srv.pc = "accept"
       /\ srv.ListenSocket # "open"
       /\ SrvStep([srv EXCEPT !.pc = "run", !.pending = @ - 1])
    \/ /\ srv.pc = "destroy"
       /\ SrvStep([srv EXCEPT !.pc = "run", !.sockets = @ \ {srv.ClientSocket},
                              !.ClientSocket = 0])

\* FAudioMCPTcpServer::HandleClient: register the socket under the mutex, the
\* loop test and WaitForData (data, end of stream, or the idle timeout), and
\* clear the registration under the mutex
HandleClient ==
    \/ /\ srv.pc = "register"
       /\ SrvStep([srv EXCEPT !.pc = "loop", !.ActiveClientSocket = srv.ClientSocket])
    \/ /\ srv.pc = "loop"
       /\ SrvStep([srv EXCEPT !.pc =
            IF ~srv.bStopping /\ (srv.inbox # <<>> \/ srv.peerClosed) THEN "recv"
            ELSE "unregister"])
    \/ /\ srv.pc = "unregister"
       /\ SrvStep([srv EXCEPT !.pc = "destroy", !.ActiveClientSocket = 0])

\* FAudioMCPTcpServer::RecvExact for the header and for the payload: the loop
\* test, then Socket->Recv, which blocks until bytes arrive, the peer closes
\* or the socket is closed; a header with an invalid size is answered with
\* an error and ends the connection
RecvExact ==
    \/ /\ srv.pc = "recv"
       /\ SrvStep([srv EXCEPT !.pc = IF srv.bStopping THEN "unregister" ELSE "in_recv"])
    \/ /\ srv.pc = "in_recv"
       /\ (srv.ClientSocket \in srv.closed \/ srv.inbox # <<>> \/ srv.peerClosed)
       /\ SrvStep(
            IF srv.ClientSocket \in srv.closed \/ srv.inbox = <<>>
            THEN [srv EXCEPT !.pc = "unregister"]
            ELSE IF Head(srv.inbox) = "hdr_bad"
            THEN [srv EXCEPT !.pc = "send", !.inbox = Tail(@), !.brk = TRUE,
                             !.resp = [units |-> 70, wide |-> 0]]
            ELSE IF Head(srv.inbox) = "hdr_ok"
            THEN [srv EXCEPT !.pc = "recv", !.inbox = Tail(@)]
            ELSE [srv EXCEPT !.pc = "dispatch", !.inbox = Tail(@)])

\* a faulty wait that takes a started handler for a finished one
Completed_Started(t) == t \in {"running", "done", "skipped"}

\* State->CompletionEvent->Wait(PollIntervalMs) returns true: the task has
\* triggered the event, after the handler or after skipping it
Completed(t) == t \in {"done", "skipped"}

\* FAudioMCPCommandDispatcher::Dispatch: parse and look up the handler, test
\* bShuttingDown, post the task, then poll the completion event every
\* PollIntervalMs until it is triggered, the timeout elapses or bShuttingDown
\* is seen; late records that SignalShutdown had been called when Dispatch
\* was entered
Dispatch ==
    \/ /\ srv.pc = "dispatch"
       /\ \E known \in BOOLEAN :
            LET id == srv.req + 1
                s  == [srv EXCEPT !.req = id, !.late[id] = (srv.gt \notin {"idle", "handler"}),
                                  !.brk = FALSE]
            IN  SrvStep(
                  IF ~known
                  THEN [s EXCEPT !.pc = "send", !.ret[id] = "error",
                                 !.resp = [units |-> 43, wide |-> 0]]
                  ELSE IF srv.bShuttingDown
                  THEN [s EXCEPT !.pc = "send", !.ret[id] = "error",
                                 !.resp = [units |-> 54, wide |-> 0]]
                  ELSE [s EXCEPT !.pc = "post"])
    \/ /\ srv.pc = "post"
       /\ SrvStep([srv EXCEPT !.pc = "wait", !.task[srv.req] = "queued",
                              !.queue = Append(@, srv.req), !.ElapsedMs = 0])
    \/ /\ srv.pc = "wait"
       /\ Completed(srv.task[srv.req])
       /\ \E r \in HandlerResults :
            SrvStep(IF srv.task[srv.req] = "done"
                    THEN [srv EXCEPT !.pc = "send", !.ret[srv.req] = "ok", !.resp = r]
                    ELSE [srv EXCEPT !.pc = "send", !.ret[srv.req] = "error",
                                     !.resp = [units |-> 59, wide |-> 0]])
    \/ /\ srv.pc = "wait"
       /\ ~Completed(srv.task[srv.req])
       /\ LET e == srv.ElapsedMs + PollIntervalMs
          IN  SrvStep(
                IF srv.bShuttingDown \/ e >= GAME_THREAD_TIMEOUT_MS
                THEN [srv EXCEPT !.pc = "send", !.ElapsedMs = e, !.ret[srv.req] = "timeout",
                                 !.resp = [units |-> 69, wide |-> 0]]
                ELSE [srv EXCEPT !.ElapsedMs = e])

\* HandleClient, step 5: SendResponse writes to the socket, then returns; a
\* failed send, or the error sent for an invalid header, ends the connection
Send ==
    \/ /\ srv.pc = "send"
       /\ \E w \in SendResponse(srv.resp, srv.bStopping) :
            SrvStep([srv EXCEPT !.wire = w, !.pc = "sent"])
    \/ /\ srv.pc = "sent"
       /\ SrvStep([srv EXCEPT !.wire = SrvConstructed.wire, !.resp = SrvConstructed.resp,
                              !.brk = FALSE,
                              !.pc = IF srv.wire.ok /\ ~srv.brk THEN "loop" ELSE "unregister"])

\* the TCP thread
ServerThread == Run \/ HandleClient \/ RecvExact \/ Dispatch \/ Send

\* a faulty task that runs the handler without testing the alive flag
GameThreadTask_NoAliveTest ==
    \/ /\ srv.gt \in {"idle", "down"}
       /\ srv.queue # <<>>
       /\ LET id == Head(srv.queue)
          IN  SrvStep([srv EXCEPT !.queue = Tail(@), !.task[id] = "running",
                                  !.running = id, !.start[id] = srv.gt, !.gt = "handler"])
    \/ /\ srv.gt = "handler"
       /\ SrvStep([srv EXCEPT !.task[srv.running] = "done", !.running = 0, !.gt = "idle"])

\* the task posted by Dispatch, run by the game thread when it is free
\* (before ShutdownModule or after it has returned): skip the handler unless
\* *State->Alive, run it on *State->BuilderMgr, trigger the completion event
GameThreadTask ==
    \/ /\ srv.gt \in {"idle", "down"}
       /\ srv.queue # <<>>
       /\ LET id == Head(srv.queue)
          IN  SrvStep(
                IF srv.bAlive
                THEN [srv EXCEPT !.queue = Tail(@), !.task[id] = "running",
                                 !.running = id, !.start[id] = srv.gt, !.gt = "handler"]
                ELSE [srv EXCEPT !.queue = Tail(@), !.task[id] = "skipped"])
    \/ /\ srv.gt = "handler"
       /\ SrvStep([srv EXCEPT !.task[srv.running] = "done", !.running = 0, !.gt = "idle"])

\* a faulty SignalShutdown that clears only the alive flag
SignalShutdown_AliveOnly ==
    /\ srv.gt = "idle"
    /\ SrvStep([srv EXCEPT !.bAlive = FALSE, !.gt = "signalled"])

\* ShutdownModule on the game thread: Dispatcher->SignalShutdown()
SignalShutdown ==
    /\ srv.gt = "idle"
    /\ SrvStep([srv EXCEPT !.bShuttingDown = TRUE, !.bAlive = FALSE, !.gt = "signalled"])

\* a faulty StopListening that leaves the client socket open
StopListening_ClientLeftOpen ==
    \/ /\ srv.gt = "signalled"
       /\ SrvStep([srv EXCEPT !.bStopping = TRUE, !.ListenSocket = "closed", !.gt = "lock"])
    \/ /\ srv.gt = "lock"
       /\ SrvStep([srv EXCEPT !.gt = "join"])
    \/ /\ srv.gt = "join"
       /\ srv.pc = "exited"
       /\ SrvStep([srv EXCEPT !.ListenSocket = "destroyed", !.gt = "stopped"])

\* a faulty StopListening that does not wait for the thread
StopListening_NoJoin ==
    \/ /\ srv.gt = "signalled"
       /\ SrvStep([srv EXCEPT !.bStopping = TRUE, !.ListenSocket = "closed", !.gt = "lock"])
    \/ /\ srv.gt = "lock"
       /\ SrvStep([srv EXCEPT !.gt = "join",
                              !.closed = IF srv.ActiveClientSocket # 0
                                         THEN @ \cup {srv.ActiveClientSocket} ELSE @])
    \/ /\ srv.gt = "join"
       /\ SrvStep([srv EXCEPT !.ListenSocket = "destroyed", !.gt = "stopped"])

\* ShutdownModule on the game thread: TcpServer->StopListening(): set
\* bStopping and close the listen socket; under the mutex close the
\* registered client socket; wait for the thread and destroy the listen socket
StopListening ==
    \/ /\ srv.gt = "signalled"
       /\ SrvStep([srv EXCEPT !.bStopping = TRUE, !.ListenSocket = "closed", !.gt = "lock"])
    \/ /\ srv.gt = "lock"
       /\ SrvStep([srv EXCEPT !.gt = "join",
                              !.closed = IF srv.ActiveClientSocket # 0
                                         THEN @ \cup {srv.ActiveClientSocket} ELSE @])
    \/ /\ srv.gt = "join"
       /\ srv.pc = "exited"
       /\ SrvStep([srv EXCEPT !.ListenSocket = "destroyed", !.gt = "stopped"])

\* ShutdownModule on the game thread, after StopListening: TcpServer.Reset()
\* (the destructor's StopListening finds no thread and no listen socket),
\* Dispatcher.Reset(), BuilderManager.Reset(), return
ResetSubsystems ==
    \/ /\ srv.gt = "stopped"
       /\ SrvStep([srv EXCEPT !.TcpServer = FALSE, !.bStopping = TRUE, !.gt = "server_reset",
                              !.closed = IF srv.ActiveClientSocket # 0
                                         THEN @ \cup {srv.ActiveClientSocket} ELSE @])
    \/ /\ srv.gt = "server_reset"
       /\ SrvStep([srv EXCEPT !.Dispatcher = FALSE, !.gt = "dispatcher_reset"])
    \/ /\ srv.gt = "dispatcher_reset"
       /\ SrvStep([srv EXCEPT !.BuilderManager = FALSE, !.gt = "down"])

SrvNext ==
    ServerThread \/ Client \/ GameThreadTask \/ SignalShutdown \/ StopListening
    \/ ResetSubsystems

SpecServer == SrvInit /\ [][SrvNext]_vars

\* the TCP thread is scheduled whenever it is not blocked, and the game
\* thread goes on with StopListening
SpecServerLive ==
    SrvInit /\ [][SrvNext]_vars /\ WF_vars(ServerThread) /\ WF_vars(StopListening)

-----------------------------------------------------------------------------
(* FAudioMCPBuilderManager: one builder session after another *)

\* FAudioMCPBuilderManager::StopAudition
StopAudition(m) ==
    IF m.AuditionAudioComponent # 0
    THEN [m EXCEPT !.playing = @ \ {m.AuditionAudioComponent}, !.AuditionAudioComponent = 0]
    ELSE m

\* a faulty ResetState that keeps the node registry
ResetState_KeepsNodes(m) ==
    [StopAudition(m) EXCEPT !.ActiveBuilder = 0, !.source = FALSE,
                            !.GraphInputOutputHandles = [n \in InputNames |-> 0],
                            !.GraphOutputInputHandles = [n \in OutputNames |-> 0],
                            !.bLiveUpdatesRequested = FALSE]

\* FAudioMCPBuilderManager::ResetState
ResetState(m) ==
    [StopAudition(m) EXCEPT !.ActiveBuilder = 0, !.source = FALSE,
                            !.NodeHandles = [id \in NodeIds |-> 0],
                            !.GraphInputOutputHandles = [n \in InputNames |-> 0],
                            !.GraphOutputInputHandles = [n \in OutputNames |-> 0],
                            !.bLiveUpdatesRequested = FALSE]

\* one call on the manager that leaves it as m and returns ok
BuilderCall(op, m, ok) ==
    /\ mgr' = [m EXCEPT !.op = op, !.ok = ok]
    /\ UNCHANGED <<clockVars, chipVars, filterVars, lp, ext, srv>>

\* FAudioMCPBuilderManager::CreateBuilder(AssetType, Name, OutError): reset,
\* then a Source builder (mono: OnPlay, OnFinished and Audio:0 built in), a
\* Patch builder, or an error for Preset, for any other type and when the
\* subsystem is missing or fails
CreateBuilder ==
    /\ mgr.builders < MaxBuilders
    /\ \E AssetType \in {"Source", "Patch", "Preset", "Other"}, Succeeded \in BOOLEAN :
         LET b == mgr.builders + 1
             r == [ResetState(mgr) EXCEPT
                      !.builders = b,
                      !.before = [nodes |-> \E id \in NodeIds : mgr.NodeHandles[id] # 0,
                                  audition |-> mgr.playing # {}]]
             src == [r EXCEPT !.GraphInputOutputHandles["OnPlay"] = b,
                              !.GraphOutputInputHandles["OnFinished"] = b,
                              !.GraphOutputInputHandles["Audio:0"] = b,
                              !.ActiveBuilder = b, !.source = TRUE]
         IN  IF Succeeded /\ AssetType = "Source" THEN BuilderCall("CreateBuilder", src, TRUE)
             ELSE IF Succeeded /\ AssetType = "Patch"
             THEN BuilderCall("CreateBuilder", [r EXCEPT !.ActiveBuilder = b], TRUE)
             ELSE BuilderCall("CreateBuilder", r, FALSE)

\* FAudioMCPBuilderManager::AddNode(NodeId, NodeType, ...): needs a builder and
\* a new ID; the node type may fail to resolve or the builder to add it
AddNode ==
    \E NodeId \in NodeIds, Succeeded \in BOOLEAN :
        IF mgr.ActiveBuilder # 0 /\ mgr.NodeHandles[NodeId] = 0 /\ Succeeded
        THEN BuilderCall("AddNode", [mgr EXCEPT !.NodeHandles[NodeId] = mgr.ActiveBuilder], TRUE)
        ELSE BuilderCall("AddNode", mgr, FALSE)

\* FAudioMCPBuilderManager::AddGraphInput(Name, TypeName, DefaultValue, OutError)
AddGraphInput ==
    \E Name \in InputNames, Succeeded \in BOOLEAN :
        IF mgr.ActiveBuilder # 0 /\ Succeeded
        THEN BuilderCall("AddGraphInput",
                         [mgr EXCEPT !.GraphInputOutputHandles[Name] = mgr.ActiveBuilder], TRUE)
        ELSE BuilderCall("AddGraphInput", mgr, FALSE)

\* FAudioMCPBuilderManager::AddGraphOutput(Name, TypeName, OutError)
AddGraphOutput ==
    \E Name \in OutputNames, Succeeded \in BOOLEAN :
        IF mgr.ActiveBuilder # 0 /\ Succeeded
        THEN BuilderCall("AddGraphOutput",
                         [mgr EXCEPT !.GraphOutputInputHandles[Name] = mgr.ActiveBuilder], TRUE)
        ELSE BuilderCall("AddGraphOutput", mgr, FALSE)

\* FAudioMCPBuilderManager::Audition: a Source builder and an editor world are
\* needed; the previous audition is stopped and a new component plays
Audition ==
    \E World \in BOOLEAN :
        IF mgr.ActiveBuilder # 0 /\ mgr.source /\ World
        THEN BuilderCall("Audition",
                         [StopAudition(mgr) EXCEPT
                             !.AuditionAudioComponent = mgr.ActiveBuilder,
                             !.playing = StopAudition(mgr).playing \cup {mgr.ActiveBuilder}],
                         TRUE)
        ELSE BuilderCall("Audition", mgr, FALSE)

BuilderInit ==
    /\ mgr = BuilderConstructed
    /\ ClockIdle
    /\ ChipIdle
    /\ FilterIdle
    /\ LoopIdle
    /\ SideIdle("mgr")

BuilderNext == CreateBuilder \/ AddNode \/ AddGraphInput \/ AddGraphOutput \/ Audition

SpecBuilder == BuilderInit /\ [][BuilderNext]_vars

-----------------------------------------------------------------------------
(* FAudioMCPBlueprintManager: CallFunction nodes on the event graph *)

\* CallFunction nodes one run adds to the event graph
MaxGraphNodes == 3

\* FAudioMCPBlueprintManager::FAudioMCPBlueprintManager: no Blueprint open,
\* empty registry (0: no node, i: the i-th node of Graph), allowlist not yet
\* built; Graph is the event graph of the Blueprint asset, op, fn and ok the
\* last call, its function name and its return value, prev the graph and the
\* registry before the last call
BlueprintConstructed ==
    [ActiveBlueprint |-> FALSE, bAllowlistBuilt |-> FALSE, AllowedFunctions |-> {},
     NodeHandles |-> [id \in NodeIds |-> 0], Graph |-> <<>>,
     op |-> "Construct", fn |-> "", ok |-> TRUE,
     prev |-> [Graph |-> <<>>, NodeHandles |-> [id \in NodeIds |-> 0]]]

\* FAudioMCPBlueprintManager::BuildAllowlist
BuildAllowlist(m) ==
    IF m.bAllowlistBuilt THEN m
    ELSE [m EXCEPT !.bAllowlistBuilt = TRUE, !.AllowedFunctions =
        {
         "SetFloatParameter", "SetIntParameter", "SetBoolParameter",
         "SetStringParameter", "SetWaveParameter", "ExecuteTriggerParameter",
         "PlaySound2D", "PlaySoundAtLocation", "SpawnSoundAtLocation", "SpawnSound2D",
         "Play", "Stop", "SetPaused", "IsPlaying", "FadeIn", "FadeOut", "AdjustVolume",
         "SetVolumeMultiplier", "SetPitchMultiplier", "SetSound", "SetWorldLocation",
         "SetWorldRotation", "GetDistanceTo", "GetActorLocation",
         "SetSoundMixClassOverride", "PushSoundMixModifier", "PopSoundMixModifier",
         "PostEvent", "PostAkEvent", "SetRTPCValue", "SetSwitch", "SetState",
         "PostTrigger", "Multiply_FloatFloat", "Add_FloatFloat", "Subtract_FloatFloat",
         "Divide_FloatFloat", "MapRangeClamped", "Lerp", "FClamp", "PrintString"
        }]

\* a faulty allowlist test that accepts every name
IsAllowedFunction_Any(m, FunctionName) == TRUE

\* FAudioMCPBlueprintManager::IsAllowedFunction
IsAllowedFunction(m, FunctionName) == FunctionName \in m.AllowedFunctions

\* one call on the manager with function name fn that leaves it as m and
\* returns ok
BlueprintCall(op, fn, m, ok) ==
    /\ mgr' = [m EXCEPT !.op = op, !.fn = fn, !.ok = ok,
                        !.prev = [Graph |-> mgr.Graph, NodeHandles |-> mgr.NodeHandles]]
    /\ UNCHANGED <<clockVars, chipVars, filterVars, lp, ext, srv>>

\* FAudioMCPBlueprintManager::OpenBlueprint(AssetPath, OutError): an empty
\* path, a path with "..", and an asset that does not load as a Blueprint are
\* errors; otherwise the handles are reset and the Blueprint is active
OpenBlueprint ==
    \E AssetPath \in {"", "/Game/../BP_Audio", "/Game/BP_Audio", "/Game/Missing"} :
        IF AssetPath = "/Game/BP_Audio"
        THEN BlueprintCall("OpenBlueprint", "",
                           [mgr EXCEPT !.NodeHandles = [id \in NodeIds |-> 0],
                                       !.ActiveBlueprint = TRUE], TRUE)
        ELSE BlueprintCall("OpenBlueprint", "", mgr, FALSE)

\* FAudioMCPBlueprintManager::AddCallFunctionNode(Id, FunctionName, ...): an
\* active Blueprint, the allowlist, FindAudioFunction (Found) and the event
\* graph (HasGraph) are tested before the node is added and registered
AddCallFunctionNode ==
    /\ Len(mgr.Graph) < MaxGraphNodes
    /\ \E Id \in NodeIds, Found \in BOOLEAN, HasGraph \in BOOLEAN,
          FunctionName \in {"PrintString", "SetRTPCValue", "FadeOut",
                            "ExecuteConsoleCommand", "QuitGame"} :
         IF ~mgr.ActiveBlueprint
         THEN BlueprintCall("AddCallFunctionNode", FunctionName, mgr, FALSE)
         ELSE LET m == BuildAllowlist(mgr)
              IN  IF IsAllowedFunction(m, FunctionName) /\ Found /\ HasGraph
                  THEN BlueprintCall("AddCallFunctionNode", FunctionName,
                                     [m EXCEPT !.Graph = Append(@, FunctionName),
                                               !.NodeHandles[Id] = Len(m.Graph) + 1],
                                     TRUE)
                  ELSE BlueprintCall("AddCallFunctionNode", FunctionName, m, FALSE)

BlueprintInit ==
    /\ mgr = BlueprintConstructed
    /\ ClockIdle
    /\ ChipIdle
    /\ FilterIdle
    /\ LoopIdle
    /\ SideIdle("mgr")

BlueprintNext == OpenBlueprint \/ AddCallFunctionNode

SpecBlueprint == BlueprintInit /\ [][BlueprintNext]_vars

-----
(* Output ranges *)

\* OutputData[i] = (static_cast<float>(RawOutput) - 2048.0f) / 2048.0f of the
\* oscillator node, counted in 2048ths (both operations are exact in float)
OscNormalize(RawOutput) == RawOutput - 2048

-----------------------------------------------------------------------------
(* Opt-in extensions *)

\* C12: while the resonance boost is disabled the filter's effective
\* resonance boost is 0, so that 1024/Q is the stock chip's.
C12_DisabledBoostIsZero ==
    ~ext.sid.res_boost_enabled =>
        /\ ext.filter.res_boost = 0
        /\ Div1024Q(ext.filter) = Div1024Q(FilterSetResonanceBoost(ext.filter, 0))

-----------------------------------------------------------------------------
(* The command server *)

\* C13: the server handles one client at a time: at most one accepted socket
\* exists, it is the one being handled, and while the thread is about to
\* accept a connection no accepted socket exists and none is registered.
C13_OneClientAtATime ==
    /\ Cardinality(srv.sockets) <= 1
    /\ srv.sockets \subseteq {srv.ClientSocket}
    /\ srv.pc \in {"run", "accept"} => (srv.sockets = {} /\ srv.ActiveClientSocket = 0)

\* C13 witness: a second client is being handled after the first one sent a
\* request and its socket was destroyed
C13_Witness ==
    /\ srv.accepted = 2
    /\ srv.req >= 1
    /\ srv.pc = "in_recv"
    /\ srv.sockets = {2}

C15_NoDispatchAfterShutdown ==
    \A id \in 1..MaxRequests :
        srv.late[id] =>
            /\ srv.ret[id] = "error"
            /\ srv.task[id] = "none"
            /\ id \notin {srv.queue[k] : k \in 1..Len(srv.queue)}
            /\ (id = srv.req => srv.pc \notin {"post", "wait"})

\* C15 witness: a valid command was dispatched after SignalShutdown and is
\* answered with the shutting-down error
C15_Witness ==
    /\ srv.req >= 1
    /\ srv.late[srv.req]
    /\ srv.pc = "send"
    /\ srv.resp.units = 54

\* C16: once StopListening has signalled the stop, and while it has not
\* returned, it goes on to return, whatever the thread was doing.
C16_StopListeningReturns ==
    (srv.bStopping /\ srv.gt \in {"lock", "join"}) ~> (srv.gt = "stopped")

\* C16 witness: StopListening waits for the thread while a client is connected
\* and the thread is inside Recv on the socket StopListening has closed
C16_Witness ==
    /\ srv.gt = "join"
    /\ srv.pc = "in_recv"
    /\ srv.inbox = <<>>
    /\ ~srv.peerClosed
    /\ srv.ClientSocket \in srv.closed

\* C17: a response sent completely is a four-byte big-endian length followed
\* by exactly that many payload bytes, the UTF-8 length of the string sent, at
\* most MAX_MESSAGE_SIZE; the string sent is the response unless that is
\* oversized, and then it is the error message.
C17_ResponseFollowsWireProtocol ==
    (srv.pc = "sent" /\ srv.wire.ok) =>
        /\ Len(srv.wire.hdr) = 4
        /\ DecodeHeader(srv.wire.hdr) = srv.wire.body
        /\ srv.wire.body = Utf8Length(srv.wire.str)
        /\ srv.wire.body <= MAX_MESSAGE_SIZE
        /\ srv.wire.str = IF Utf8Length(srv.resp) <= MAX_MESSAGE_SIZE THEN srv.resp
                          ELSE [units |-> 78, wide |-> 0]

\* C17 witness: an oversized response has been replaced and sent completely
C17_Witness ==
    /\ srv.pc = "sent"
    /\ srv.wire.ok
    /\ Utf8Length(srv.resp) > MAX_MESSAGE_SIZE
    /\ srv.wire.body = 78

-----------------------------------------------------------------------------
(* The builder manager *)

\* C18: after CreateBuilder no node ID is registered, every registered graph
\* input and output is a built-in pin of the new builder (OnPlay, OnFinished
\* and Audio:0 of a Source builder, none otherwise), no handle of an earlier
\* builder is left, and no audition is playing.
C18_CreateBuilderResetsAllState ==
    mgr.op = "CreateBuilder" =>
        /\ \A id \in NodeIds : mgr.NodeHandles[id] = 0
        /\ \A n \in InputNames :
              mgr.GraphInputOutputHandles[n] =
                  IF mgr.ok /\ mgr.source /\ n = "OnPlay" THEN mgr.builders ELSE 0
        /\ \A n \in OutputNames :
              mgr.GraphOutputInputHandles[n] =
                  IF mgr.ok /\ mgr.source /\ n \in {"OnFinished", "Audio:0"}
                  THEN mgr.builders ELSE 0
        /\ mgr.AuditionAudioComponent = 0
        /\ mgr.playing = {}
        /\ ~mgr.bLiveUpdatesRequested
        /\ mgr.ActiveBuilder = IF mgr.ok THEN mgr.builders ELSE 0

\* C18 witness: CreateBuilder has returned after a session that had registered
\* nodes and was auditioning
C18_Witness ==
    /\ mgr.op = "CreateBuilder"
    /\ mgr.ok
    /\ mgr.before.nodes
    /\ mgr.before.audition

-----------------------------------------------------------------------------
(* The Blueprint manager *)

\* C19: every CallFunction node of the graph calls an allowlisted function;
\* AddCallFunctionNode with a name that is not on the allowlist returns an
\* error and leaves the graph and the node registry as they were, and a
\* successful call appends exactly the node asked for.
C19_OnlyAllowlistedFunctions ==
    LET Allowlist == BuildAllowlist(BlueprintConstructed).AllowedFunctions
    IN  /\ \A i \in 1..Len(mgr.Graph) : mgr.Graph[i] \in Allowlist
        /\ (mgr.op = "AddCallFunctionNode" /\ mgr.fn \notin Allowlist) =>
              /\ ~mgr.ok
              /\ mgr.Graph = mgr.prev.Graph
              /\ mgr.NodeHandles = mgr.prev.NodeHandles
        /\ (mgr.op = "AddCallFunctionNode" /\ mgr.ok) =>
              /\ mgr.fn \in Allowlist
              /\ mgr.Graph = Append(mgr.prev.Graph, mgr.fn)

\* C19 witness: a function that is not on the allowlist has been rejected on
\* an open Blueprint whose graph already holds a CallFunction node
C19_Witness ==
    /\ mgr.op = "AddCallFunctionNode"
    /\ mgr.fn = "ExecuteConsoleCommand"
    /\ mgr.ActiveBlueprint
    /\ ~mgr.ok
    /\ Len(mgr.Graph) = 1

-----------------------------------------------------------------------------
(* Gate triggers inside a block *)

\* C20: after a block with a gate trigger at frame k, the samples before k
\* were clocked with the gate as it was before the block and the samples
\* from k on with the toggled gate, in the chip node (voice 1) and in the
\* envelope node.
C20_GateChangesFromTriggerFrame ==
    (chipOp = "Execute" /\ chipIn.Trigger[0]) =>
        \A i \in 0..(chipIn.NumSamples - 1) :
            /\ chip.gateLog[i + 2] =
                   IF i < chipIn.TriggerFrame THEN chip.gateLog[1] ELSE 1 - chip.gateLog[1]
            /\ env.gateLog[i + 2] =
                   IF i < chipIn.TriggerFrame THEN env.gateLog[1] ELSE 1 - env.gateLog[1]

-----------------------------------------------------------------------------
(* Module shutdown *)

\* C21: no handler is started after SignalShutdown has been called (every
\* started handler was started with the game thread outside ShutdownModule
\* and before it), and while a handler runs the builder manager exists.
C21_NoHandlerAfterShutdown ==
    /\ \A i \in 1..MaxRequests : srv.start[i] \in {"none", "idle"}
    /\ srv.gt = "handler" => srv.BuilderManager

\* ShutdownModule has returned and the game thread has taken the task of a
\* request that was posted before SignalShutdown and whose Dispatch had
\* returned after the full timeout: the handler was skipped
C21_Witness ==
    /\ srv.gt = "down"
    /\ \E i \in 1..MaxRequests :
         /\ srv.req = i /\ ~srv.late[i]
         /\ srv.ret[i] = "timeout" /\ srv.ElapsedMs >= GAME_THREAD_TIMEOUT_MS
         /\ srv.task[i] = "skipped" /\ srv.start[i] = "none"

\* C22: once the dispatcher or the builder manager has been destroyed the
\* server thread has exited, so no Dispatch call is running and none starts.
C22_ThreadExitedBeforeDestroy ==
    (~srv.Dispatcher \/ ~srv.BuilderManager) => srv.pc = "exited"

\* the builder manager destroyed after the thread had dispatched a request
\* whose task is still queued
C22_Witness ==
    /\ ~srv.BuilderManager /\ ~srv.Dispatcher /\ srv.pc = "exited"
    /\ srv.req > 0 /\ srv.queue # <<>>

====
